---- MODULE Spec2Model ----
(***************************************************************************)
(* The to-do REST backend of src/src/index.ts: one in-memory tree          *)
(* data.Apps -> todos -> tasks, mutated by the request handlers and        *)
(* rewritten to items.json after every mutation.  One action per route.    *)
(*                                                                         *)
(* JavaScript values.  A JSON object is a function from its keys to their  *)
(* values; a key that is absent (undefined) is absent from the DOMAIN.     *)
(* A string that the code inspects (a todo name, a search text) is a       *)
(* sequence of one-character strings.  The number NaN and the JSON value   *)
(* null are the two integers NaN and Null, which no id of the model        *)
(* reaches by counting.  Every timestamp is the one value Stamp.           *)
(***************************************************************************)
EXTENDS Integers, Sequences, FiniteSets, TLC

VARIABLES
  data,    \* index.ts:59    let data: DataStructure (its Apps list)
  file,    \* index.ts:11    the contents of items.json (its Apps list)
  req,     \* the request being answered, NoRequest while the server waits
  res,     \* the response to it: [status, body]
  before,  \* history: data and file as they were when that request arrived
  held,    \* history: held[i] = the todo ids app number i held up to then
  write,   \* history: what writeItems did for that request: "none", "done", "failed"
  failures,\* how many writes have failed so far
  scope    \* which requests the clients of this run send (a bound, see Scopes)

vars == <<data, file, req, res, before, held, write, failures, scope>>

----------------------------------------------------------------------------
(* Bounds of the model *)

MaxApps == 2          \* apps in the store
MaxTodos == 2         \* todos in the store, all apps together
MaxTasks == 2         \* tasks in the store, all todos together
MaxBodyFields == 1    \* fields of a merge-update body
MaxFilterFields == 2  \* parameters given to a filter or search request
MaxWriteFailures == 2 \* writes to items.json that fail in a run

----------------------------------------------------------------------------
(* JavaScript values and operators *)

NaN == -999
Null == -998
Stamp == "t"

\* a === b on numbers: NaN equals nothing
StrictEq(a, b) == a # NaN /\ b # NaN /\ a = b

\* Number(o[k]) for Math.max: undefined -> NaN, null -> 0
ToNumber(o, k) ==
  IF k \notin DOMAIN o THEN NaN ELSE IF o[k] = Null THEN 0 ELSE o[k]

MathMax(a, b) == IF a = NaN \/ b = NaN THEN NaN ELSE IF a >= b THEN a ELSE b

Plus1(a) == IF a = NaN THEN NaN ELSE a + 1

\* { ...a, ...b }
Spread(a, b) ==
  [k \in DOMAIN a \cup DOMAIN b |-> IF k \in DOMAIN b THEN b[k] ELSE a[k]]

\* delete o[k]
Delete(o, k) == [j \in DOMAIN o \ {k} |-> o[j]]

\* !v for the values a flag can hold here; undefined is falsy
Truthy(o, k) == k \in DOMAIN o /\ o[k] = TRUE

ToLowerChar(c) == IF c = "G" THEN "g" ELSE IF c = "R" THEN "r" ELSE c

toLowerCase(s) == [i \in 1..Len(s) |-> ToLowerChar(s[i])]

includes(s, q) ==
  \E i \in 0..(Len(s) - Len(q)) : SubSeq(s, i + 1, i + Len(q)) = q

\* s.trim() !== ''
NonBlank(s) == \E i \in 1..Len(s) : s[i] # " "

\* Array.prototype.filter: the positions kept, in order
RECURSIVE FilterSeq(_, _)
FilterSeq(s, keep) ==
  IF s = <<>> THEN <<>>
  ELSE IF Head(s) \in keep THEN <<Head(s)>> \o FilterSeq(Tail(s), keep)
  ELSE FilterSeq(Tail(s), keep)

Positions(s) == [i \in 1..Len(s) |-> i]

\* JSON.stringify of an id: NaN is written as null
JsonNum(n) == IF n = NaN THEN Null ELSE n

JsonTodo(t) == [k \in DOMAIN t |-> IF k = "id" THEN JsonNum(t[k]) ELSE t[k]]

JsonApp(a) ==
  [a EXCEPT !.id = JsonNum(@),
            !.todos = [i \in 1..Len(a.todos) |-> JsonTodo(a.todos[i])]]

JSONstringify(apps) == [i \in 1..Len(apps) |-> JsonApp(apps[i])]

----------------------------------------------------------------------------
(* Lookups and id assignment *)

\* o.id === id, for an id parsed from the path
IdIs(o, id) == "id" \in DOMAIN o /\ o.id # Null /\ StrictEq(o.id, id)

\* Array.prototype.findIndex(x => x.id === id), 1-based; 0 when there is none
\* (find(...) is the element at that position)
FindIndex(s, id) ==
  LET hits == {i \in 1..Len(s) : IdIs(s[i], id)}
  IN IF hits = {} THEN 0 ELSE CHOOSE i \in hits : \A j \in hits : i <= j

\* s.reduce((max, x) => Math.max(max, x.id), acc)
RECURSIVE ReduceMaxId(_, _)
ReduceMaxId(s, acc) ==
  IF s = <<>> THEN acc
  ELSE ReduceMaxId(Tail(s), MathMax(acc, ToNumber(Head(s), "id")))

\* (mutant) the largest id itself is handed out again
getNextAppIdNoIncrement(apps) == ReduceMaxId(apps, 0)

getNextAppId(apps) == Plus1(ReduceMaxId(apps, 0))

getNextTodoId(app) == Plus1(ReduceMaxId(app.todos, 0))

writeItems(apps) == JSONstringify(apps)

----------------------------------------------------------------------------
(* Responses *)

Json(status, body) == [status |-> status, body |-> body]

End(status) == [status |-> status]

NotFound(entity) == Json(404, [message |-> entity])

AppNotFound == NotFound("App not found")
TodoNotFound == NotFound("Todo not found")
TaskNotFound == NotFound("Task not found")

\* what a handler does: the tree it leaves, its response, whether it wrote
Out(d, response, wrote) == [data |-> d, res |-> response, wrote |-> wrote]

\* an exception escapes the handler before any mutation: express answers 500
Throws(d) == Out(d, End(500), FALSE)

JsonTodos(todos, keep) ==
  LET pos == FilterSeq(Positions(todos), keep)
  IN [j \in 1..Len(pos) |-> JsonTodo(todos[pos[j]])]

\* data with todo number ti of app number ai replaced
SetTodo(d, ai, ti, todo) == [d EXCEPT ![ai].todos[ti] = todo]

----------------------------------------------------------------------------
(* The handlers of src/src/index.ts *)

\* POST /apps/import
ImportHandler(d, body) ==
  LET withId == Spread(body, [id |-> getNextAppId(d)])
      newTodos == [i \in 1..Len(withId.todos) |->
                     Spread(withId.todos[i], [id |-> getNextTodoId(withId)])]
      importedApp == [withId EXCEPT !.todos = newTodos]
  IN Out(Append(d, importedApp), Json(201, JsonApp(importedApp)), TRUE)

\* GET /apps/:appId/export
ExportHandler(d, appId) ==
  LET ai == FindIndex(d, appId)
  IN IF ai = 0 THEN Out(d, AppNotFound, FALSE)
     ELSE Out(d, Json(200, JsonApp(d[ai])), FALSE)

\* GET /apps
GetAppsHandler(d) == Out(d, Json(200, JSONstringify(d)), FALSE)

\* POST /apps
PostAppHandler(d, body) ==
  LET newApp == Spread(body, [id |-> getNextAppId(d), createdAt |-> Stamp,
                              todos |-> <<>>])
  IN Out(Append(d, newApp), Json(201, JsonApp(newApp)), TRUE)

\* PUT /apps/:appId
PutAppHandler(d, appId, body) ==
  LET ai == FindIndex(d, appId)
      app == IF "name" \in DOMAIN body THEN Spread(d[ai], [name |-> body.name])
             ELSE Delete(d[ai], "name")
      d2 == [d EXCEPT ![ai] = app]
  IN IF ai = 0 THEN Out(d, AppNotFound, FALSE)
     ELSE Out(d2, Json(200, JsonApp(app)), TRUE)


\* (mutant) without an archived field every todo is kept
ArchivedKeptAllByDefault(todos, body) ==
  IF "archived" \in DOMAIN body /\ body.archived \in BOOLEAN
  THEN {i \in 1..Len(todos) :
          "isArchived" \in DOMAIN todos[i] /\ todos[i].isArchived = body.archived}
  ELSE 1..Len(todos)

\* the todos POST /apps/:appId/todos keeps (positions); the name test throws
\* on a todo without a name
ArchivedKept(todos, body) ==
  IF "archived" \in DOMAIN body /\ body.archived \in BOOLEAN
  THEN {i \in 1..Len(todos) :
          "isArchived" \in DOMAIN todos[i] /\ todos[i].isArchived = body.archived}
  ELSE {i \in 1..Len(todos) : ~Truthy(todos[i], "isArchived")}


\* (mutant) the name is compared as written
NameKeptCaseSensitive(todos, from, q) == {i \in from : includes(todos[i].name, q)}

NameKept(todos, from, q) ==
  {i \in from : includes(toLowerCase(todos[i].name), toLowerCase(q))}

CompletedKept(todos, from, completed) ==
  {i \in from : "isCompleted" \in DOMAIN todos[i] /\ todos[i].isCompleted = completed}

QueryGiven(body) == "query" \in DOMAIN body /\ NonBlank(body.query)

PostTodosHandler(d, appId, body) ==
  LET ai == FindIndex(d, appId)
      todos == d[ai].todos
      k1 == ArchivedKept(todos, body)
      k2 == IF QueryGiven(body) THEN NameKept(todos, k1, body.query) ELSE k1
      k3 == IF "completed" \in DOMAIN body /\ body.completed \in BOOLEAN
            THEN CompletedKept(todos, k2, body.completed) ELSE k2
  IN IF ai = 0 THEN Out(d, AppNotFound, FALSE)
     ELSE IF QueryGiven(body) /\ \E i \in k1 : "name" \notin DOMAIN todos[i]
     THEN Throws(d)
     ELSE Out(d, Json(200, JsonTodos(todos, k3)), FALSE)

\* (mutant) the new id counts on from the largest todo id of the whole store
PostTodoNewGlobalIds(d, appId, body) ==
  LET ai == FindIndex(d, appId)
      all == [i \in 1..Len(d) |-> [id |-> ReduceMaxId(d[i].todos, 0)]]
      newTodo == Spread(body, [id |-> Plus1(ReduceMaxId(all, 0)), createdAt |-> Stamp,
                               isArchived |-> FALSE, isCompleted |-> FALSE,
                               tasks |-> <<>>])
      d2 == [d EXCEPT ![ai].todos = Append(@, newTodo)]
  IN IF ai = 0 THEN Out(d, AppNotFound, FALSE)
     ELSE Out(d2, Json(201, JsonTodo(newTodo)), TRUE)

\* POST /apps/:appId/todos/new
PostTodoNewHandler(d, appId, body) ==
  LET ai == FindIndex(d, appId)
      newTodo == Spread(body, [id |-> getNextTodoId(d[ai]), createdAt |-> Stamp,
                               isArchived |-> FALSE, isCompleted |-> FALSE,
                               tasks |-> <<>>])
      d2 == [d EXCEPT ![ai].todos = Append(@, newTodo)]
  IN IF ai = 0 THEN Out(d, AppNotFound, FALSE)
     ELSE Out(d2, Json(201, JsonTodo(newTodo)), TRUE)

\* (mutant) the body replaces the todo wholesale
PutTodoReplaces(d, appId, todoId, body) ==
  LET ai == FindIndex(d, appId)
      ti == FindIndex(d[ai].todos, todoId)
  IN IF ai = 0 THEN Out(d, AppNotFound, FALSE)
     ELSE IF ti = 0 THEN Out(d, TodoNotFound, FALSE)
     ELSE Out(SetTodo(d, ai, ti, body), Json(200, JsonTodo(body)), TRUE)

\* PUT /apps/:appId/todos/:todoId
PutTodoHandler(d, appId, todoId, body) ==
  LET ai == FindIndex(d, appId)
      ti == FindIndex(d[ai].todos, todoId)
      merged == Spread(d[ai].todos[ti], body)
  IN IF ai = 0 THEN Out(d, AppNotFound, FALSE)
     ELSE IF ti = 0 THEN Out(d, TodoNotFound, FALSE)
     ELSE Out(SetTodo(d, ai, ti, merged), Json(200, JsonTodo(merged)), TRUE)


\* (mutant) the todo is removed from the list
DeleteTodoRemoves(d, appId, todoId) ==
  LET ai == FindIndex(d, appId)
      ti == FindIndex(d[ai].todos, todoId)
      todos == d[ai].todos
      rest == SubSeq(todos, 1, ti - 1) \o SubSeq(todos, ti + 1, Len(todos))
  IN IF ai = 0 THEN Out(d, AppNotFound, FALSE)
     ELSE IF ti = 0 THEN Out(d, TodoNotFound, FALSE)
     ELSE Out([d EXCEPT ![ai].todos = rest], End(204), TRUE)

\* DELETE /apps/:appId/todos/:todoId
DeleteTodoHandler(d, appId, todoId) ==
  LET ai == FindIndex(d, appId)
      ti == FindIndex(d[ai].todos, todoId)
      archived == Spread(d[ai].todos[ti], [isArchived |-> TRUE])
  IN IF ai = 0 THEN Out(d, AppNotFound, FALSE)
     ELSE IF ti = 0 THEN Out(d, TodoNotFound, FALSE)
     ELSE Out(SetTodo(d, ai, ti, archived), End(204), TRUE)


\* (mutant) unchecking leaves completedAt in place
CheckKeepsStamp(d, appId, todoId) ==
  LET ai == FindIndex(d, appId)
      ti == FindIndex(d[ai].todos, todoId)
      todo == d[ai].todos[ti]
      flipped == Spread(todo, [isCompleted |-> ~Truthy(todo, "isCompleted")])
      stamped == IF flipped.isCompleted
                 THEN Spread(flipped, [completedAt |-> Stamp])
                 ELSE flipped
  IN IF ai = 0 THEN Out(d, AppNotFound, FALSE)
     ELSE IF ti = 0 THEN Out(d, TodoNotFound, FALSE)
     ELSE Out(SetTodo(d, ai, ti, stamped), Json(200, JsonTodo(stamped)), TRUE)

\* PUT /apps/:appId/todos/:todoId/check
CheckHandler(d, appId, todoId) ==
  LET ai == FindIndex(d, appId)
      ti == FindIndex(d[ai].todos, todoId)
      todo == d[ai].todos[ti]
      flipped == Spread(todo, [isCompleted |-> ~Truthy(todo, "isCompleted")])
      stamped == IF flipped.isCompleted
                 THEN Spread(flipped, [completedAt |-> Stamp])
                 ELSE Delete(flipped, "completedAt")
  IN IF ai = 0 THEN Out(d, AppNotFound, FALSE)
     ELSE IF ti = 0 THEN Out(d, TodoNotFound, FALSE)
     ELSE Out(SetTodo(d, ai, ti, stamped), Json(200, JsonTodo(stamped)), TRUE)

\* (mutant) a status other than 'archived' does not filter
StatusKeptArchivedOnly(todos, from, status) ==
  IF status = "archived" THEN {i \in from : Truthy(todos[i], "isArchived")}
  ELSE from

\* GET /apps/:appId/todos/search; a query parameter is absent or a string
StatusKept(todos, from, status) ==
  {i \in from : IF status = "archived" THEN Truthy(todos[i], "isArchived")
                ELSE ~Truthy(todos[i], "isArchived")}

QueryParamGiven(query, k) == k \in DOMAIN query /\ query[k] # ""

StatusAndCompletedKept(todos, from, query) ==
  LET k1 == IF QueryParamGiven(query, "status")
            THEN StatusKept(todos, from, query.status) ELSE from
  IN IF QueryParamGiven(query, "completed")
     THEN CompletedKept(todos, k1, query.completed = "true") ELSE k1

\* (mutant) the app is looked up before q is tested
SearchAppFirst(d, appId, query) ==
  LET ai == FindIndex(d, appId)
      todos == d[ai].todos
      k1 == NameKept(todos, 1..Len(todos), query.q)
      k3 == StatusAndCompletedKept(todos, k1, query)
  IN IF ai = 0 THEN Out(d, AppNotFound, FALSE)
     ELSE IF "q" \notin DOMAIN query \/ query.q = <<>>
     THEN Out(d, Json(400, [message |-> "Query parameter \"q\" is required"]), FALSE)
     ELSE IF \E i \in 1..Len(todos) : "name" \notin DOMAIN todos[i] THEN Throws(d)
     ELSE Out(d, Json(200, JsonTodos(todos, k3)), FALSE)

SearchHandler(d, appId, query) ==
  LET ai == FindIndex(d, appId)
      todos == d[ai].todos
      k1 == NameKept(todos, 1..Len(todos), query.q)
      k3 == StatusAndCompletedKept(todos, k1, query)
  IN IF "q" \notin DOMAIN query \/ query.q = <<>>
     THEN Out(d, Json(400, [message |-> "Query parameter \"q\" is required"]), FALSE)
     ELSE IF ai = 0 THEN Out(d, AppNotFound, FALSE)
     ELSE IF \E i \in 1..Len(todos) : "name" \notin DOMAIN todos[i] THEN Throws(d)
     ELSE Out(d, Json(200, JsonTodos(todos, k3)), FALSE)

\* GET /apps/:appId/todos/filter
FilterHandler(d, appId, query) ==
  LET ai == FindIndex(d, appId)
      todos == d[ai].todos
  IN IF ai = 0 THEN Out(d, AppNotFound, FALSE)
     ELSE Out(d, Json(200, JsonTodos(todos,
                StatusAndCompletedKept(todos, 1..Len(todos), query))), FALSE)

\* the 0-based index parsed from the path is within the task list
InRange(taskIndex, tasks) ==
  taskIndex # NaN /\ taskIndex >= 0 /\ taskIndex < Len(tasks)

SetTasks(d, ai, ti, tasks) == [d EXCEPT ![ai].todos[ti].tasks = tasks]

\* splice(taskIndex, 1)
Splice1(tasks, taskIndex) ==
  SubSeq(tasks, 1, taskIndex) \o SubSeq(tasks, taskIndex + 2, Len(tasks))

\* POST /apps/:appId/todos/:todoId/tasks
PostTaskHandler(d, appId, todoId, body) ==
  LET ai == FindIndex(d, appId)
      ti == FindIndex(d[ai].todos, todoId)
  IN IF ai = 0 THEN Out(d, AppNotFound, FALSE)
     ELSE IF ti = 0 THEN Out(d, TodoNotFound, FALSE)
     ELSE Out(SetTasks(d, ai, ti, Append(d[ai].todos[ti].tasks, body)),
              Json(201, body), TRUE)

\* GET /apps/:appId/todos/:todoId/tasks
GetTasksHandler(d, appId, todoId) ==
  LET ai == FindIndex(d, appId)
      ti == FindIndex(d[ai].todos, todoId)
  IN IF ai = 0 THEN Out(d, AppNotFound, FALSE)
     ELSE IF ti = 0 THEN Out(d, TodoNotFound, FALSE)
     ELSE Out(d, Json(200, d[ai].todos[ti].tasks), FALSE)

\* PUT /apps/:appId/todos/:todoId/tasks/:taskIndex
PutTaskHandler(d, appId, todoId, taskIndex, body) ==
  LET ai == FindIndex(d, appId)
      ti == FindIndex(d[ai].todos, todoId)
      tasks == d[ai].todos[ti].tasks
      merged == Spread(tasks[taskIndex + 1], body)
  IN IF ai = 0 THEN Out(d, AppNotFound, FALSE)
     ELSE IF ti = 0 THEN Out(d, TodoNotFound, FALSE)
     ELSE IF ~InRange(taskIndex, tasks) THEN Out(d, TaskNotFound, FALSE)
     ELSE Out(SetTasks(d, ai, ti, [tasks EXCEPT ![taskIndex + 1] = merged]),
              Json(200, merged), TRUE)

\* (mutant) the index is not checked: splice(taskIndex, 1) takes NaN as 0,
\* counts a negative index from the end, and removes nothing past the end
DeleteTaskUnchecked(d, appId, todoId, taskIndex) ==
  LET ai == FindIndex(d, appId)
      ti == FindIndex(d[ai].todos, todoId)
      tasks == d[ai].todos[ti].tasks
      from == IF taskIndex = NaN THEN 0
              ELSE IF taskIndex >= 0 THEN taskIndex
              ELSE IF Len(tasks) + taskIndex >= 0 THEN Len(tasks) + taskIndex
              ELSE 0
  IN IF ai = 0 THEN Out(d, AppNotFound, FALSE)
     ELSE IF ti = 0 THEN Out(d, TodoNotFound, FALSE)
     ELSE Out(SetTasks(d, ai, ti, Splice1(tasks, from)), End(204), TRUE)

\* (mutant) the last task is removed, whatever the index
DeleteTaskPops(d, appId, todoId, taskIndex) ==
  LET ai == FindIndex(d, appId)
      ti == FindIndex(d[ai].todos, todoId)
      tasks == d[ai].todos[ti].tasks
  IN IF ai = 0 THEN Out(d, AppNotFound, FALSE)
     ELSE IF ti = 0 THEN Out(d, TodoNotFound, FALSE)
     ELSE IF ~InRange(taskIndex, tasks) THEN Out(d, TaskNotFound, FALSE)
     ELSE Out(SetTasks(d, ai, ti, SubSeq(tasks, 1, Len(tasks) - 1)), End(204), TRUE)

\* DELETE /apps/:appId/todos/:todoId/tasks/:taskIndex
DeleteTaskHandler(d, appId, todoId, taskIndex) ==
  LET ai == FindIndex(d, appId)
      ti == FindIndex(d[ai].todos, todoId)
      tasks == d[ai].todos[ti].tasks
  IN IF ai = 0 THEN Out(d, AppNotFound, FALSE)
     ELSE IF ti = 0 THEN Out(d, TodoNotFound, FALSE)
     ELSE IF ~InRange(taskIndex, tasks) THEN Out(d, TaskNotFound, FALSE)
     ELSE Out(SetTasks(d, ai, ti, Splice1(tasks, taskIndex)), End(204), TRUE)

\* DELETE /apps/:appId/todos/:todoId/tasks/:taskIndex as the earlier iteration
\* of the server has it (src/unnamed/part_001): the removed task is returned
DeleteTaskLegacyHandler(d, appId, todoId, taskIndex) ==
  LET ai == FindIndex(d, appId)
      ti == FindIndex(d[ai].todos, todoId)
      tasks == d[ai].todos[ti].tasks
  IN IF ai = 0 THEN Out(d, AppNotFound, FALSE)
     ELSE IF ti = 0 THEN Out(d, TodoNotFound, FALSE)
     ELSE IF ~InRange(taskIndex, tasks) THEN Out(d, TaskNotFound, FALSE)
     ELSE Out(SetTasks(d, ai, ti, Splice1(tasks, taskIndex)),
              Json(200, tasks[taskIndex + 1]), TRUE)

\* PUT /apps/:appId/todos/:todoId/tasks/:taskIndex/toggle
ToggleTaskHandler(d, appId, todoId, taskIndex) ==
  LET ai == FindIndex(d, appId)
      ti == FindIndex(d[ai].todos, todoId)
      tasks == d[ai].todos[ti].tasks
      task == tasks[taskIndex + 1]
      toggled == Spread(task, [isCompleted |-> ~Truthy(task, "isCompleted")])
  IN IF ai = 0 THEN Out(d, AppNotFound, FALSE)
     ELSE IF ti = 0 THEN Out(d, TodoNotFound, FALSE)
     ELSE IF ~InRange(taskIndex, tasks) THEN Out(d, TaskNotFound, FALSE)
     ELSE Out(SetTasks(d, ai, ti, [tasks EXCEPT ![taskIndex + 1] = toggled]),
              Json(200, toggled), TRUE)


\* (mutant) the listing leaves out the archived todos
GetTodosLegacyActiveOnly(d, appId) ==
  LET ai == FindIndex(d, appId)
      todos == d[ai].todos
  IN IF ai = 0 THEN Out(d, AppNotFound, FALSE)
     ELSE Out(d, Json(200, JsonTodos(todos,
                {i \in 1..Len(todos) : ~Truthy(todos[i], "isArchived")})), FALSE)

\* GET /apps/:appId/todos of the earlier version (src/unnamed/part_001), the
\* listing without a filter
GetTodosLegacyHandler(d, appId) ==
  LET ai == FindIndex(d, appId)
      todos == d[ai].todos
  IN IF ai = 0 THEN Out(d, AppNotFound, FALSE)
     ELSE Out(d, Json(200, JsonTodos(todos, 1..Len(todos))), FALSE)

----------------------------------------------------------------------------
(* The requests the clients send.  A run's clients keep to one scope: in    *)
(* "apps" they rename apps, in "ids" their merge-updates rewrite todo ids,  *)
(* in "fields" the other fields of a todo, and they filter and search with  *)
(* every parameter, in "tasks" they work on the task lists.  Every route is *)
(* called in every scope; the scope only narrows the bodies and parameters. *)
(* In "faults" the requests are the plainest and the disk can fail.         *)

Scopes == {"apps", "ids", "fields", "tasks", "faults"}

EmptyObj == <<>>

AppIds == (1..MaxApps) \cup {NaN}

TodoIds(sc) ==
  CASE sc = "ids" -> (0..MaxTodos) \cup {NaN}
    [] sc = "tasks" -> 1..MaxTodos
    [] OTHER -> (1..MaxTodos) \cup {NaN}

TaskIndexes(sc) == IF sc = "tasks" THEN (-1..MaxTasks) \cup {NaN} ELSE {0}

\* the indexes sent to the earlier iteration of the delete route
LegacyTaskIndexes(sc) == IF sc = "tasks" THEN 0..(MaxTasks - 1) ELSE {0}

TodoNames == {<<"G", "r">>, <<"x">>}

\* the values a client gives key k: in a JSON body, or (kind "query") in a
\* query string
Values(kind, k) ==
  IF kind = "query"
  THEN CASE k = "q" -> {<<>>, <<"G", "R">>}
         [] k = "status" -> {"archived", "active", ""}
         [] k = "completed" -> {"true", "false", ""}
  ELSE CASE k = "id" -> {0, 1}
         [] k = "name" -> TodoNames
         [] k = "isCompleted" -> BOOLEAN
         [] k = "isArchived" -> BOOLEAN
         [] k = "completedAt" -> {Stamp}
         [] k = "tasks" -> {<<>>}
         [] k = "query" -> {<<"G", "R">>, <<" ">>}
         [] k = "archived" -> BOOLEAN
         [] k = "completed" -> BOOLEAN

\* the objects with at most n of the keys
RECURSIVE Objects(_, _, _)
Objects(kind, keys, n) ==
  IF keys = {} \/ n = 0 THEN {EmptyObj}
  ELSE LET k == CHOOSE x \in keys : TRUE
       IN Objects(kind, keys \ {k}, n)
          \cup {Spread(o, k :> v) : o \in Objects(kind, keys \ {k}, n - 1),
                                     v \in Values(kind, k)}

AppBodies == {[name |-> "p"], [name |-> "p", id |-> 1]}

RenameBodies(sc) == IF sc = "apps" THEN {[name |-> "q"]} ELSE {[name |-> "p"]}

PlainTodoBody == [name |-> <<"G", "r">>]

FieldTodoBodies ==
  {[name |-> n] : n \in TodoNames}
  \cup {EmptyObj,
        [name |-> <<"x">>, id |-> 0, isArchived |-> TRUE, isCompleted |-> TRUE,
         completedAt |-> Stamp]}

TodoBodies(sc) == IF sc = "fields" THEN FieldTodoBodies ELSE {PlainTodoBody}

IdMergeBodies == Objects("body", {"id"}, MaxBodyFields)

FieldMergeBodies ==
  Objects("body", {"name", "isCompleted", "isArchived", "completedAt"}, MaxBodyFields)

TaskMergeBodies == Objects("body", {"tasks"}, MaxBodyFields)

MergeBodies(sc) ==
  CASE sc = "apps" -> {EmptyObj}
    [] sc = "faults" -> {EmptyObj}
    [] sc = "ids" -> IdMergeBodies
    [] sc = "fields" -> FieldMergeBodies
    [] sc = "tasks" -> TaskMergeBodies

AllFilterBodies == Objects("body", {"query", "archived", "completed"}, MaxFilterFields)

AllSearchQueries == Objects("query", {"q", "status", "completed"}, MaxFilterFields)

AllFilterQueries == Objects("query", {"status", "completed"}, MaxFilterFields)

FilterBodies(sc) == IF sc = "fields" THEN AllFilterBodies ELSE {EmptyObj}

SearchQueries(sc) ==
  IF sc = "fields" THEN AllSearchQueries ELSE {EmptyObj, [q |-> <<"G", "R">>]}

FilterQueries(sc) == IF sc = "fields" THEN AllFilterQueries ELSE {EmptyObj}

TaskBodies == {[text |-> "a", isCompleted |-> FALSE], [text |-> "b"]}

TaskUpdateBodies == {[isCompleted |-> TRUE]}

TaskLimit(sc) == IF sc = "tasks" THEN MaxTasks ELSE 0

\* the todos of an app payload a client writes by hand
PlainClientTodo ==
  [id |-> 1, name |-> <<"G", "r">>, isCompleted |-> FALSE, isArchived |-> FALSE,
   createdAt |-> Stamp, tasks |-> <<>>]

DoneClientTodo ==
  [id |-> 0, name |-> <<"x">>, isCompleted |-> TRUE, isArchived |-> TRUE,
   createdAt |-> Stamp, completedAt |-> Stamp, tasks |-> <<>>]

ClientTodos(sc) ==
  CASE sc = "apps" -> {PlainClientTodo}
    [] sc = "ids" -> {PlainClientTodo, Delete(PlainClientTodo, "id")}
    [] sc = "fields" -> {DoneClientTodo}
    [] sc = "tasks" -> {PlainClientTodo}
    [] sc = "faults" -> {PlainClientTodo}

ClientAppsOf(todos) ==
  {[name |-> "p", createdAt |-> Stamp, todos |-> ts] :
     ts \in UNION {[1..n -> todos] : n \in 0..MaxTodos}}

IdClientApps == ClientAppsOf(ClientTodos("ids"))
FieldClientApps == ClientAppsOf(ClientTodos("fields"))
TaskClientApps == ClientAppsOf(ClientTodos("tasks"))

ClientApps(sc) ==
  CASE sc = "apps" -> TaskClientApps
    [] sc = "ids" -> IdClientApps
    [] sc = "fields" -> FieldClientApps
    [] sc = "tasks" -> TaskClientApps
    [] sc = "faults" -> TaskClientApps

\* an import body: written by hand, or the body GET /apps/:appId/export gave
ImportBodies(sc, d) == ClientApps(sc) \cup {JsonApp(d[i]) : i \in 1..Len(d)}

RECURSIVE SumLen(_, _)
SumLen(s, k) == IF s = <<>> THEN 0 ELSE Len(Head(s)[k]) + SumLen(Tail(s), k)

TotalTodos(d) == SumLen(d, "todos")

RECURSIVE TotalTasks(_)
TotalTasks(d) ==
  IF d = <<>> THEN 0 ELSE SumLen(Head(d).todos, "tasks") + TotalTasks(Tail(d))

----------------------------------------------------------------------------
(* The state machine: the server answers one request at a time             *)

NoRequest == [op |-> "none"]

\* the server is between two requests
Waiting == req = NoRequest

TodoIdsOf(app) == {app.todos[i].id : i \in 1..Len(app.todos)}

\* index.ts:40-59: items.json is created as {Apps: []} and read back
Init ==
  /\ data = <<>>
  /\ file = <<>>
  /\ req = NoRequest
  /\ res = End(0)
  /\ before = [data |-> <<>>, file |-> <<>>]
  /\ held = [i \in 1..MaxApps |-> {}]
  /\ write = "none"
  /\ failures = 0
  /\ scope \in Scopes

\* the disk of this run can fail
Faulty == scope = "faults"

\* what a write that failed part-way leaves in items.json
Corrupt == <<[corrupt |-> TRUE]>>

\* (mutant) a failed write undoes the mutation in memory
StepRollsBack(r, out) ==
  /\ req' = r
  /\ before' = [data |-> data, file |-> file]
  /\ \/ /\ data' = out.data
        /\ res' = out.res
        /\ file' = IF out.wrote THEN writeItems(out.data) ELSE file
        /\ write' = IF out.wrote THEN "done" ELSE "none"
        /\ UNCHANGED failures
     \/ /\ out.wrote /\ Faulty /\ failures < MaxWriteFailures
        /\ data' = data
        /\ res' = End(500)
        /\ file' \in {file, Corrupt}
        /\ write' = "failed"
        /\ failures' = failures + 1
  /\ UNCHANGED <<held, scope>>

\* request r arrives and its handler runs to the end: out is its Out(...).
\* When fs.writeFileSync throws, the mutation is already in memory, the
\* handler's response is never sent and express answers 500; items.json is
\* as it was (the file could not be opened) or cut short.
Step(r, out) ==
  /\ req' = r
  /\ before' = [data |-> data, file |-> file]
  /\ data' = out.data
  /\ \/ /\ res' = out.res
        /\ file' = IF out.wrote THEN writeItems(out.data) ELSE file
        /\ write' = IF out.wrote THEN "done" ELSE "none"
        /\ UNCHANGED failures
     \/ /\ out.wrote /\ Faulty /\ failures < MaxWriteFailures
        /\ res' = End(500)
        /\ file' \in {file, Corrupt}
        /\ write' = "failed"
        /\ failures' = failures + 1
  /\ UNCHANGED <<held, scope>>

\* the response is sent; the server waits for the next request
Listen ==
  /\ ~Waiting
  /\ req' = NoRequest
  /\ res' = End(0)
  /\ before' = [data |-> data, file |-> file]
  /\ held' = [i \in DOMAIN held |->
                held[i] \cup (IF i <= Len(data) THEN TodoIdsOf(data[i]) ELSE {})]
  /\ write' = "none"
  /\ UNCHANGED <<data, file, failures, scope>>

Import ==
  /\ Waiting
  /\ \E body \in ImportBodies(scope, data) :
       /\ Len(data) < MaxApps
       /\ TotalTodos(data) + Len(body.todos) <= MaxTodos
       /\ TotalTasks(data) + SumLen(body.todos, "tasks") <= TaskLimit(scope)
       /\ Step([op |-> "import", body |-> body], ImportHandler(data, body))

Export ==
  /\ Waiting
  /\ \E a \in AppIds : Step([op |-> "export", appId |-> a], ExportHandler(data, a))

GetApps ==
  /\ Waiting
  /\ Step([op |-> "getApps"], GetAppsHandler(data))

PostApp ==
  /\ Waiting
  /\ \E body \in AppBodies :
       /\ Len(data) < MaxApps
       /\ Step([op |-> "postApp", body |-> body], PostAppHandler(data, body))

PutApp ==
  /\ Waiting
  /\ \E a \in AppIds, body \in RenameBodies(scope) :
       Step([op |-> "putApp", appId |-> a, body |-> body], PutAppHandler(data, a, body))

PostTodos ==
  /\ Waiting
  /\ \E a \in AppIds, body \in FilterBodies(scope) :
       Step([op |-> "postTodos", appId |-> a, body |-> body],
            PostTodosHandler(data, a, body))

PostTodoNew ==
  /\ Waiting
  /\ \E a \in AppIds, body \in TodoBodies(scope) :
       /\ TotalTodos(data) < MaxTodos
       /\ Step([op |-> "postTodoNew", appId |-> a, body |-> body],
               PostTodoNewHandler(data, a, body))

PutTodo ==
  /\ Waiting
  /\ \E a \in AppIds, t \in TodoIds(scope), body \in MergeBodies(scope) :
       Step([op |-> "putTodo", appId |-> a, todoId |-> t, body |-> body],
            PutTodoHandler(data, a, t, body))

DeleteTodo ==
  /\ Waiting
  /\ \E a \in AppIds, t \in TodoIds(scope) :
       Step([op |-> "deleteTodo", appId |-> a, todoId |-> t],
            DeleteTodoHandler(data, a, t))

Check ==
  /\ Waiting
  /\ \E a \in AppIds, t \in TodoIds(scope) :
       Step([op |-> "check", appId |-> a, todoId |-> t], CheckHandler(data, a, t))

Search ==
  /\ Waiting
  /\ \E a \in AppIds, query \in SearchQueries(scope) :
       Step([op |-> "search", appId |-> a, query |-> query],
            SearchHandler(data, a, query))

Filter ==
  /\ Waiting
  /\ \E a \in AppIds, query \in FilterQueries(scope) :
       Step([op |-> "filter", appId |-> a, query |-> query],
            FilterHandler(data, a, query))

PostTask ==
  /\ Waiting
  /\ \E a \in AppIds, t \in TodoIds(scope), body \in TaskBodies :
       /\ TotalTasks(data) < TaskLimit(scope)
       /\ Step([op |-> "postTask", appId |-> a, todoId |-> t, body |-> body],
               PostTaskHandler(data, a, t, body))

GetTasks ==
  /\ Waiting
  /\ \E a \in AppIds, t \in TodoIds(scope) :
       Step([op |-> "getTasks", appId |-> a, todoId |-> t], GetTasksHandler(data, a, t))

PutTask ==
  /\ Waiting
  /\ \E a \in AppIds, t \in TodoIds(scope), i \in TaskIndexes(scope), body \in TaskUpdateBodies :
       Step([op |-> "putTask", appId |-> a, todoId |-> t, taskIndex |-> i,
             body |-> body], PutTaskHandler(data, a, t, i, body))

DeleteTask ==
  /\ Waiting
  /\ \E a \in AppIds, t \in TodoIds(scope), i \in TaskIndexes(scope) :
       Step([op |-> "deleteTask", appId |-> a, todoId |-> t, taskIndex |-> i],
            DeleteTaskHandler(data, a, t, i))

ToggleTask ==
  /\ Waiting
  /\ \E a \in AppIds, t \in TodoIds(scope), i \in TaskIndexes(scope) :
       Step([op |-> "toggleTask", appId |-> a, todoId |-> t, taskIndex |-> i],
            ToggleTaskHandler(data, a, t, i))

DeleteTaskLegacy ==
  /\ Waiting
  /\ \E a \in AppIds, t \in TodoIds(scope), i \in LegacyTaskIndexes(scope) :
       Step([op |-> "deleteTaskLegacy", appId |-> a, todoId |-> t, taskIndex |-> i],
            DeleteTaskLegacyHandler(data, a, t, i))

GetTodosLegacy ==
  /\ Waiting
  /\ \E a \in AppIds :
       Step([op |-> "getTodosLegacy", appId |-> a], GetTodosLegacyHandler(data, a))

Next ==
  \/ Import \/ Export \/ GetApps \/ PostApp \/ PutApp
  \/ PostTodos \/ PostTodoNew \/ PutTodo \/ DeleteTodo \/ Check
  \/ Search \/ Filter
  \/ PostTask \/ GetTasks \/ PutTask \/ DeleteTask \/ ToggleTask
  \/ GetTodosLegacy \/ DeleteTaskLegacy
  \/ Listen

Spec == Init /\ [][Next]_vars

----------------------------------------------------------------------------
(* What the claims speak of *)

Answered(op) == req.op = op

\* the app and the todo the request being answered addressed, as positions in
\* the tree it found (0: none)
AppAt == FindIndex(before.data, req.appId)
TodoAt == IF AppAt = 0 THEN 0 ELSE FindIndex(before.data[AppAt].todos, req.todoId)

AllTodos(d) == {<<i, j>> \in (1..MaxApps) \X (1..(MaxTodos + 1)) :
                  i <= Len(d) /\ j <= Len(d[i].todos)}

AllNamed(todos) == \A i \in 1..Len(todos) : "name" \in DOMAIN todos[i]

\* name contains q, compared without regard to case
NameHas(todo, q) ==
  \E i \in 0..(Len(todo.name) - Len(q)) :
    \A j \in 1..Len(q) : ToLowerChar(todo.name[i + j]) = ToLowerChar(q[j])

\* JSON.stringify of a list of todos
JsonList(todos) == [i \in 1..Len(todos) |-> JsonTodo(todos[i])]

----------------------------------------------------------------------------
(* C1  POST /apps/import of a payload with k todos stores and returns an   *)
(* app whose todos carry the ids 1, 2, ..., k in list order, whatever ids  *)
(* the client supplied.                                                     *)
(* The code gives every todo the same id, 1 + the largest id the client    *)
(* sent (NaN when a todo came without one).                                 *)

ImportNumbersTodos ==
  (Answered("import") /\ res.status = 201) =>
    LET stored == data[Len(data)].todos
    IN /\ Len(stored) = Len(req.body.todos)
       /\ Len(res.body.todos) = Len(req.body.todos)
       /\ \A i \in 1..Len(stored) : stored[i].id = i /\ res.body.todos[i].id = i

----------------------------------------------------------------------------
(* C2  In every reachable state no two todos of the same app have the same *)
(* id.                                                                      *)
(* Import gives all todos of the app one id, and a merge-update whose body *)
(* carries an id overwrites the todo's id with it.                          *)

TodoIdsUnique ==
  \A a \in 1..Len(data) :
    \A i, j \in 1..Len(data[a].todos) :
      i # j => data[a].todos[i].id # data[a].todos[j].id

----------------------------------------------------------------------------
(* C3  In every reachable state every todo has a completedAt field if and  *)
(* only if its isCompleted is true.                                         *)
(* A creation body's completedAt is kept while isCompleted is forced to    *)
(* false; a merge-update writes either field without the other.            *)

CompletedAtIffCompleted ==
  \A p \in AllTodos(data) :
    LET todo == data[p[1]].todos[p[2]]
    IN ("completedAt" \in DOMAIN todo) <=> Truthy(todo, "isCompleted")

----------------------------------------------------------------------------
(* C4  The app at position i of the Apps list has id i: the N-th app added *)
(* by POST /apps or POST /apps/import gets id N whatever id its body       *)
(* carries, so app ids are unique and strictly positive.                    *)

AppIdsArePositions ==
  /\ \A i \in 1..Len(data) : data[i].id = i
  /\ (res.status = 201 /\ (Answered("postApp") \/ Answered("import"))) =>
       /\ Len(data) = Len(before.data) + 1
       /\ res.body.id = Len(data)

AppIdFromBodyIgnored ==
  /\ Answered("postApp") /\ res.status = 201
  /\ "id" \in DOMAIN req.body /\ req.body.id # res.body.id
  /\ Len(data) = MaxApps

----------------------------------------------------------------------------
(* C5  A todo newly created in an app gets a strictly positive id that no  *)
(* todo of that app has held at any earlier point.                          *)
(* After a merge-update has lowered the largest id of the app, the next    *)
(* creation hands out an id that was held before.                           *)

NewTodoIdNeverHeld ==
  (Answered("postTodoNew") /\ res.status = 201) =>
    LET todos == data[AppAt].todos
        id == todos[Len(todos)].id
    IN id # NaN /\ id > 0 /\ id \notin held[AppAt]

----------------------------------------------------------------------------
(* C6  For an existing app, the POST /apps/:a/todos filter returns exactly *)
(* the todos of the app, in stored order, whose isArchived equals the      *)
(* body's archived (false when archived is omitted) and whose isCompleted  *)
(* equals the body's completed when it is given.                            *)
(* As stated it fails: a body with a non-blank query also drops the todos  *)
(* whose name does not contain it.  Amended: the name test is one of the   *)
(* conditions; and when a query is given and a todo that passes the        *)
(* archived condition has no name, the request fails with status 500 and   *)
(* the store is unchanged.                                                  *)

PassesArchived(todo, body) ==
  todo.isArchived = (IF "archived" \in DOMAIN body THEN body.archived ELSE FALSE)

PassesCompleted(todo, body) ==
  "completed" \in DOMAIN body => todo.isCompleted = body.completed

HasQuery(body) ==
  "query" \in DOMAIN body /\ \E i \in 1..Len(body.query) : body.query[i] # " "

PassesQuery(todo, body) == HasQuery(body) => NameHas(todo, body.query)

\* a todo without a name reaches the name test
NamelessTested(todos, body) ==
  /\ HasQuery(body)
  /\ \E i \in 1..Len(todos) :
       "name" \notin DOMAIN todos[i] /\ PassesArchived(todos[i], body)

\* the original statement
PostFilterByFlagsOnly ==
  (Answered("postTodos") /\ AppAt # 0) =>
    LET Pass(todo) == PassesArchived(todo, req.body) /\ PassesCompleted(todo, req.body)
    IN /\ res.status = 200
       /\ res.body = JsonList(SelectSeq(data[AppAt].todos, Pass))

\* as amended
PostFilterResult ==
  (Answered("postTodos") /\ AppAt # 0) =>
    LET Pass(todo) == /\ PassesArchived(todo, req.body)
                      /\ PassesCompleted(todo, req.body)
                      /\ PassesQuery(todo, req.body)
    IN /\ data = before.data /\ file = before.file
       /\ IF NamelessTested(data[AppAt].todos, req.body)
          THEN res.status = 500
          ELSE /\ res.status = 200
               /\ res.body = JsonList(SelectSeq(data[AppAt].todos, Pass))
               /\ "archived" \notin DOMAIN req.body =>
                    \A i \in 1..Len(res.body) : res.body[i].isArchived = FALSE

\* a filter with a query and no archived field that keeps one todo and drops
\* an archived one
PostFilterDropsSome ==
  /\ Answered("postTodos") /\ res.status = 200
  /\ DOMAIN req.body = {"query"}
  /\ Len(res.body) = 1 /\ Len(data[AppAt].todos) = 2
  /\ \E i \in 1..2 : /\ data[AppAt].todos[i].isArchived
                     /\ "name" \in DOMAIN data[AppAt].todos[i]
                     /\ NameHas(data[AppAt].todos[i], req.body.query)

----------------------------------------------------------------------------
(* C7  The legacy listing GET /apps/:a/todos returns only the non-archived *)
(* todos of the app.                                                        *)
(* As stated it fails: the route answers with app.todos as it is.  Amended: *)
(* it returns every todo of the app, archived or not, in stored order.      *)

\* the original statement
LegacyListHidesArchived ==
  (Answered("getTodosLegacy") /\ res.status = 200) =>
    \A i \in 1..Len(res.body) : ~Truthy(res.body[i], "isArchived")

\* as amended
LegacyListReturnsAll ==
  (Answered("getTodosLegacy") /\ AppAt # 0) =>
    /\ res.status = 200
    /\ res.body = JsonList(data[AppAt].todos)
    /\ data = before.data /\ file = before.file

LegacyListShowsArchived ==
  /\ Answered("getTodosLegacy") /\ res.status = 200
  /\ Len(res.body) = 2
  /\ ~res.body[1].isArchived /\ res.body[2].isArchived

----------------------------------------------------------------------------
(* C8  Archiving an existing todo (DELETE /apps/:a/todos/:t) returns 204,  *)
(* sets only that todo's isArchived to true and removes nothing: the list  *)
(* keeps its length, order and ids, every other field is unchanged, and    *)
(* the todo is no longer in the default (no archived field) filter result. *)
(* The todo is the first one of the app with that id.  204 is the answer   *)
(* once the document is written; when the write throws the answer is 500   *)
(* and the flag stays set in memory.                                        *)

ArchiveSetsFlagOnly ==
  (Answered("deleteTodo") /\ AppAt # 0 /\ TodoAt # 0) =>
    LET old == before.data[AppAt].todos[TodoAt]
        new == data[AppAt].todos[TodoAt]
        shown == PostTodosHandler(data, req.appId, EmptyObj).res
    IN /\ write = "done" => res = End(204)
       /\ write = "failed" => res = End(500)
       /\ write # "none"
       /\ Len(data) = Len(before.data)
       /\ \A i \in 1..Len(data) : i # AppAt => data[i] = before.data[i]
       /\ \A k \in DOMAIN data[AppAt] \cup DOMAIN before.data[AppAt] :
            k # "todos" => data[AppAt][k] = before.data[AppAt][k]
       /\ Len(data[AppAt].todos) = Len(before.data[AppAt].todos)
       /\ \A j \in 1..Len(data[AppAt].todos) :
            j # TodoAt => data[AppAt].todos[j] = before.data[AppAt].todos[j]
       /\ DOMAIN new = DOMAIN old
       /\ \A k \in DOMAIN old : k # "isArchived" => new[k] = old[k]
       /\ new.isArchived = TRUE
       /\ shown.status = 200
       /\ Len(shown.body) = Cardinality({j \in 1..Len(data[AppAt].todos) :
                                           j # TodoAt /\ ~data[AppAt].todos[j].isArchived})
       /\ \A i \in 1..Len(shown.body) : shown.body[i] # JsonTodo(new)

\* the second of two todos, not archived before, has been archived
ArchivedSecondOfTwo ==
  /\ Answered("deleteTodo") /\ res.status = 204
  /\ AppAt # 0 /\ TodoAt = 2
  /\ ~before.data[AppAt].todos[2].isArchived
  /\ ~data[AppAt].todos[1].isArchived

----------------------------------------------------------------------------
(* C9  Toggling completion on a todo twice in a row (two PUT .../check)    *)
(* returns it to its original isCompleted value, and the second toggle     *)
(* clears completedAt.                                                      *)
(* As stated it fails for a todo that was completed: the second toggle     *)
(* completes it again and stamps completedAt.  Amended: after the second   *)
(* toggle completedAt is absent when the todo was originally not           *)
(* completed, and freshly stamped when it was.                              *)
(* The state is the one the first toggle has left; the second toggle is    *)
(* the same request, handled in that state.                                 *)

SecondToggle == CheckHandler(data, req.appId, req.todoId)

\* the original statement
ToggleTwiceClearsStamp ==
  (Answered("check") /\ res.status = 200) =>
    LET orig == before.data[AppAt].todos[TodoAt]
        twice == SecondToggle.data[AppAt].todos[TodoAt]
    IN /\ SecondToggle.res.status = 200
       /\ twice.isCompleted = orig.isCompleted
       /\ "completedAt" \notin DOMAIN twice

\* as amended
ToggleTwiceRestores ==
  (Answered("check") /\ res.status = 200) =>
    LET orig == before.data[AppAt].todos[TodoAt]
        once == data[AppAt].todos[TodoAt]
        twice == SecondToggle.data[AppAt].todos[TodoAt]
    IN /\ once.isCompleted = ~orig.isCompleted
       /\ SecondToggle.res.status = 200
       /\ twice.isCompleted = orig.isCompleted
       /\ ~orig.isCompleted => "completedAt" \notin DOMAIN twice
       /\ orig.isCompleted => "completedAt" \in DOMAIN twice /\ twice.completedAt = Stamp
       /\ \A k \in DOMAIN orig \ {"isCompleted", "completedAt"} :
            k \in DOMAIN twice /\ twice[k] = orig[k]

\* a first toggle has completed and stamped a todo that was not completed
FirstToggleCompleted ==
  /\ Answered("check") /\ res.status = 200
  /\ ~before.data[AppAt].todos[TodoAt].isCompleted
  /\ "completedAt" \notin DOMAIN before.data[AppAt].todos[TodoAt]
  /\ data[AppAt].todos[TodoAt].isCompleted
  /\ "completedAt" \in DOMAIN data[AppAt].todos[TodoAt]

----------------------------------------------------------------------------
(* C10  GET /apps/:a/todos/search with q missing or empty responds 400 and *)
(* changes nothing; with a non-empty q on an existing app it returns       *)
(* exactly the todos whose name contains q, compared case-insensitively.   *)
(* As stated it fails: a status or completed parameter narrows the result  *)
(* further, and a todo without a name makes the handler throw.  Amended:   *)
(* the result is the todos whose name contains q and that pass the status  *)
(* and completed parameters given; when a todo of the app has no name the  *)
(* request fails with status 500; the store is unchanged in every case.    *)

QGiven == "q" \in DOMAIN req.query /\ req.query.q # <<>>

Untouched == data = before.data /\ file = before.file

PassesStatusParam(todo, query) ==
  ("status" \in DOMAIN query /\ query.status # "")
    => todo.isArchived = (query.status = "archived")

PassesCompletedParam(todo, query) ==
  ("completed" \in DOMAIN query /\ query.completed # "")
    => todo.isCompleted = (query.completed = "true")

\* the original statement
SearchByNameOnly ==
  Answered("search") =>
    IF ~QGiven THEN res.status = 400 /\ Untouched
    ELSE AppAt # 0 =>
           LET Pass(todo) == "name" \in DOMAIN todo /\ NameHas(todo, req.query.q)
           IN /\ res.status = 200
              /\ res.body = JsonList(SelectSeq(data[AppAt].todos, Pass))

\* as amended
SearchResult ==
  Answered("search") =>
    IF ~QGiven THEN res.status = 400 /\ Untouched
    ELSE AppAt # 0 =>
           LET Pass(todo) == /\ NameHas(todo, req.query.q)
                             /\ PassesStatusParam(todo, req.query)
                             /\ PassesCompletedParam(todo, req.query)
           IN /\ Untouched
              /\ IF AllNamed(data[AppAt].todos)
                 THEN /\ res.status = 200
                      /\ res.body = JsonList(SelectSeq(data[AppAt].todos, Pass))
                 ELSE res.status = 500

\* a search for "GR" has found the todo named "Gr" and left out the other
SearchMatchedIgnoringCase ==
  /\ Answered("search") /\ res.status = 200
  /\ req.query.q = <<"G", "R">>
  /\ Len(data[AppAt].todos) = 2
  /\ Len(res.body) = 1 /\ res.body[1].name = <<"G", "r">>

\* a search without q on an app that does not exist is refused with 400
SearchRefused ==
  /\ Answered("search") /\ res.status = 400 /\ AppAt = 0

----------------------------------------------------------------------------
(* C11  For an existing app and todo, updating, deleting or toggling a     *)
(* task at an index that is negative, not a number, or not below the       *)
(* length of the task list responds 404 with message 'Task not found' and  *)
(* leaves the in-memory tree and the persisted file unchanged.              *)

TaskOps == {"putTask", "deleteTask", "toggleTask"}

OutOfRange(index, tasks) == index = NaN \/ index < 0 \/ index >= Len(tasks)

TaskIndexRefused ==
  (req.op \in TaskOps /\ AppAt # 0 /\ TodoAt # 0
     /\ OutOfRange(req.taskIndex, before.data[AppAt].todos[TodoAt].tasks)) =>
    /\ res = [status |-> 404, body |-> [message |-> "Task not found"]]
    /\ data = before.data
    /\ file = before.file

\* a delete at the index just past the end of a task list that is not empty
TaskPastEndRefused ==
  /\ Answered("deleteTask") /\ AppAt # 0 /\ TodoAt # 0
  /\ before.data[AppAt].todos[TodoAt].tasks # <<>>
  /\ req.taskIndex = Len(before.data[AppAt].todos[TodoAt].tasks)
  /\ res.status = 404

----------------------------------------------------------------------------
(* C12  Merge-update of an existing todo (PUT /apps/:a/todos/:t) replaces  *)
(* exactly the fields present in the body with the body's values and       *)
(* preserves every field not present; the todo keeps its position in the   *)
(* list.  The todo is the first one of the app with the id of the path.    *)
(* The merged todo is the answer once the document is written; when the    *)
(* write throws the answer is 500 and the merge stays in memory.           *)

MergeReplacesBodyFields ==
  (Answered("putTodo") /\ AppAt # 0 /\ TodoAt # 0) =>
    LET old == before.data[AppAt].todos[TodoAt]
        new == data[AppAt].todos[TodoAt]
    IN /\ write = "done" => res = Json(200, JsonTodo(new))
       /\ write = "failed" => res = End(500)
       /\ write # "none"
       /\ Len(data[AppAt].todos) = Len(before.data[AppAt].todos)
       /\ DOMAIN new = DOMAIN old \cup DOMAIN req.body
       /\ \A k \in DOMAIN req.body : new[k] = req.body[k]
       /\ \A k \in DOMAIN old \ DOMAIN req.body : new[k] = old[k]
       /\ \A j \in 1..Len(data[AppAt].todos) :
            j # TodoAt => data[AppAt].todos[j] = before.data[AppAt].todos[j]

\* the second of two todos, completed, has been given a new name
RenamedSecondTodo ==
  /\ Answered("putTodo") /\ AppAt # 0 /\ TodoAt = 2
  /\ DOMAIN req.body = {"name"}
  /\ "name" \in DOMAIN before.data[AppAt].todos[2]
  /\ before.data[AppAt].todos[2].name # req.body.name
  /\ "completedAt" \in DOMAIN before.data[AppAt].todos[2]
  /\ data[AppAt].todos[2].name = req.body.name

----------------------------------------------------------------------------
(* C13  Every todo-level and task-level request resolves the app first: if *)
(* the app id matches no app the response is 404 'App not found' whatever  *)
(* the other parameters are; otherwise if the todo id matches no todo of   *)
(* that app it is 404 'Todo not found'; otherwise if the task index is out *)
(* of bounds it is 404 'Task not found'.                                    *)
(* As stated it fails for the search route, which tests q before it looks  *)
(* the app up.  Amended: a search without q, or with an empty q, is        *)
(* answered 400 even when the app does not exist; every other request is   *)
(* answered as stated.                                                      *)

TodoOps == {"putTodo", "deleteTodo", "check", "postTask", "getTasks"}

AppOps == {"postTodos", "postTodoNew", "search", "filter", "getTodosLegacy"}

Message(text) == [status |-> 404, body |-> [message |-> text]]

TodoMissing == req.op \in TodoOps \cup TaskOps /\ AppAt # 0 /\ TodoAt = 0

TaskMissing ==
  /\ req.op \in TaskOps /\ AppAt # 0 /\ TodoAt # 0
  /\ OutOfRange(req.taskIndex, before.data[AppAt].todos[TodoAt].tasks)

\* the original statement
FirstMissingLevelNamed ==
  (req.op \in AppOps \cup TodoOps \cup TaskOps) =>
    /\ AppAt = 0 => res = Message("App not found")
    /\ TodoMissing => res = Message("Todo not found")
    /\ TaskMissing => res = Message("Task not found")

\* as amended
FirstMissingLevelAfterQ ==
  (req.op \in AppOps \cup TodoOps \cup TaskOps) =>
    /\ AppAt = 0 => IF Answered("search") /\ ~QGiven
                    THEN res.status = 400
                    ELSE res = Message("App not found")
    /\ TodoMissing => res = Message("Todo not found")
    /\ TaskMissing => res = Message("Task not found")

\* a task update that names no app, no todo and no task of a store that has
\* an app: the answer names the app
AppNamedFirst ==
  /\ Answered("putTask") /\ before.data # <<>> /\ AppAt = 0
  /\ \A a \in 1..Len(before.data) :
       \A t \in 1..Len(before.data[a].todos) : before.data[a].todos[t].id # req.todoId
  /\ req.taskIndex = NaN
  /\ res = Message("App not found")

----------------------------------------------------------------------------
(* C14  When file writes succeed, the persisted document equals the        *)
(* in-memory tree at boot and after every completed request: every handler *)
(* that mutates the tree rewrites the whole file before it responds, and   *)
(* handlers that respond 400 or 404 or only read perform no write and no   *)
(* mutation.                                                                *)
(* The document read back is not the tree once a todo id is NaN: the tree  *)
(* holds NaN, the document null.                                            *)

ReadOps == {"export", "getApps", "postTodos", "search", "filter", "getTasks",
            "getTodosLegacy"}

PersistedEqualsMemory ==
  /\ failures = 0 => file = data
  /\ (~Waiting /\ (res.status \in {400, 404} \/ req.op \in ReadOps)) =>
       write = "none" /\ Untouched

----------------------------------------------------------------------------
(* C15  On GET /apps/:a/todos/filter and /search, a status of 'archived'   *)
(* returns only archived todos and any other status value only non-        *)
(* archived ones; a completed of 'true' returns only completed todos and   *)
(* any other given value only uncompleted ones.                             *)
(* As stated it fails for the empty value: ?status= and ?completed= do not *)
(* filter at all.  Amended: the parameter filters when its value is not    *)
(* empty, and the filter route then returns exactly the todos that pass.   *)

QueryOps == {"filter", "search"}

\* the original statement
StatusAndCompletedFilter ==
  (req.op \in QueryOps /\ res.status = 200) =>
    /\ "status" \in DOMAIN req.query =>
         \A i \in 1..Len(res.body) :
           res.body[i].isArchived = (req.query.status = "archived")
    /\ "completed" \in DOMAIN req.query =>
         \A i \in 1..Len(res.body) :
           res.body[i].isCompleted = (req.query.completed = "true")

\* as amended
NonEmptyStatusAndCompletedFilter ==
  /\ (req.op \in QueryOps /\ res.status = 200) =>
       \A i \in 1..Len(res.body) :
         /\ PassesStatusParam(res.body[i], req.query)
         /\ PassesCompletedParam(res.body[i], req.query)
  /\ (Answered("filter") /\ AppAt # 0) =>
       LET Pass(todo) == /\ PassesStatusParam(todo, req.query)
                         /\ PassesCompletedParam(todo, req.query)
       IN /\ res.status = 200
          /\ res.body = JsonList(SelectSeq(data[AppAt].todos, Pass))

\* a filter with a status other than 'archived' has left out an archived todo
ActiveFilterDropsArchived ==
  /\ Answered("filter") /\ res.status = 200
  /\ "status" \in DOMAIN req.query /\ req.query.status = "active"
  /\ Len(data[AppAt].todos) = 2 /\ Len(res.body) = 1
  /\ \E i \in 1..2 : data[AppAt].todos[i].isArchived

----------------------------------------------------------------------------
(* C16  If the file write of a mutating request fails after the in-memory  *)
(* mutation was applied, the in-memory tree keeps the mutation and differs *)
(* from the persisted document; the two stay inconsistent until the next   *)
(* successful write, after which the persisted document again equals the   *)
(* in-memory tree (including the earlier mutation).                         *)
(* As stated it fails: a later request whose write fails too can undo the  *)
(* mutation in memory (a second toggle), and the two agree again without   *)
(* any successful write.  Amended: they agree again before the next        *)
(* successful write only in that way.                                       *)
(* The document agrees with the tree when it is its serialization.         *)

InSync(d, f) == f = JSONstringify(d)

\* the requests whose mutation always changes the tree
ChangingOps == {"postApp", "import", "postTodoNew", "postTask", "check", "toggleTask"}

\* a failed write leaves the mutation in memory, and the document behind
FailedWriteKeepsMutation ==
  write = "failed" =>
    /\ req.op \in ChangingOps => data # before.data
    /\ (InSync(before.data, before.file) /\ data # before.data) => ~InSync(data, file)

\* a successful write makes the document the serialization of the tree
WriteSynchronizes == write = "done" => InSync(data, file)

\* the original statement
InconsistentUntilWritten ==
  /\ FailedWriteKeepsMutation
  /\ WriteSynchronizes
  /\ (~Waiting /\ ~InSync(before.data, before.file) /\ write # "done") =>
       ~InSync(data, file)

\* as amended
InconsistentUntilWrittenOrUndone ==
  /\ FailedWriteKeepsMutation
  /\ WriteSynchronizes
  /\ (~Waiting /\ ~InSync(before.data, before.file) /\ write # "done"
        /\ InSync(data, file)) =>
       /\ write = "failed"
       /\ data # before.data
       /\ file = before.file

\* after a failed write, a successful one has brought the document up to date
WrittenAfterFailure ==
  /\ write = "done" /\ failures > 0
  /\ ~InSync(before.data, before.file)
  /\ before.file # Corrupt
  /\ Len(before.file) < Len(before.data)
  /\ InSync(data, file)

----------------------------------------------------------------------------
(* C17  Deleting a task at an in-range index i responds 204 with no body   *)
(* and removes exactly the task at position i: the task list gets one      *)
(* shorter, the tasks before i keep their index, the tasks after i move    *)
(* down by one in the same relative order, and nothing else in the tree    *)
(* changes.                                                                 *)
(* As stated it fails for the earlier iteration of the route, which        *)
(* answers 200 with the removed task.  Amended: the removal is as stated   *)
(* in both iterations; the answer is 204 without body in src/src/index.ts  *)
(* and 200 with the removed task in the earlier one.                        *)

DeleteTaskOps == {"deleteTask", "deleteTaskLegacy"}

TaskDeleted ==
  /\ req.op \in DeleteTaskOps /\ AppAt # 0 /\ TodoAt # 0
  /\ ~OutOfRange(req.taskIndex, before.data[AppAt].todos[TodoAt].tasks)

\* exactly the task at 0-based position i is gone; with 1-based positions,
\* 1..i are kept and i+2.. have moved down by one
RemovedExactly(old, new, i) ==
  /\ Len(new) = Len(old) - 1
  /\ \A j \in 1..i : new[j] = old[j]
  /\ \A j \in (i + 1)..Len(new) : new[j] = old[j + 1]

\* nothing but the task list of the todo addressed has changed
OnlyTasksChanged ==
  /\ Len(data) = Len(before.data)
  /\ \A a \in 1..Len(data) : a # AppAt => data[a] = before.data[a]
  /\ DOMAIN data[AppAt] = DOMAIN before.data[AppAt]
  /\ \A k \in DOMAIN data[AppAt] : k # "todos" => data[AppAt][k] = before.data[AppAt][k]
  /\ Len(data[AppAt].todos) = Len(before.data[AppAt].todos)
  /\ \A t \in 1..Len(data[AppAt].todos) :
       t # TodoAt => data[AppAt].todos[t] = before.data[AppAt].todos[t]
  /\ DOMAIN data[AppAt].todos[TodoAt] = DOMAIN before.data[AppAt].todos[TodoAt]
  /\ \A k \in DOMAIN data[AppAt].todos[TodoAt] :
       k # "tasks" => data[AppAt].todos[TodoAt][k] = before.data[AppAt].todos[TodoAt][k]

\* the original statement
DeleteTaskAnswers204 ==
  TaskDeleted =>
    /\ res = [status |-> 204]
    /\ RemovedExactly(before.data[AppAt].todos[TodoAt].tasks,
                      data[AppAt].todos[TodoAt].tasks, req.taskIndex)
    /\ OnlyTasksChanged

\* as amended
DeleteTaskRemovesExactly ==
  TaskDeleted =>
    /\ IF Answered("deleteTask") THEN res = [status |-> 204]
       ELSE res = [status |-> 200,
                   body |-> before.data[AppAt].todos[TodoAt].tasks[req.taskIndex + 1]]
    /\ RemovedExactly(before.data[AppAt].todos[TodoAt].tasks,
                      data[AppAt].todos[TodoAt].tasks, req.taskIndex)
    /\ OnlyTasksChanged

\* the first of two different tasks has been deleted: the second moved down
FirstOfTwoTasksDeleted ==
  /\ Answered("deleteTask") /\ AppAt # 0 /\ TodoAt # 0
  /\ req.taskIndex = 0
  /\ Len(before.data[AppAt].todos[TodoAt].tasks) = 2
  /\ before.data[AppAt].todos[TodoAt].tasks[1] # before.data[AppAt].todos[TodoAt].tasks[2]
  /\ res.status = 204
  /\ data[AppAt].todos[TodoAt].tasks = <<before.data[AppAt].todos[TodoAt].tasks[2]>>

----------------------------------------------------------------------------
(* C18  Every todo-level or task-level mutating request addressed to app a *)
(* and todo t (create todo, merge-update, archive, check, add, update,     *)
(* toggle or delete task) leaves every other app, and every other todo of  *)
(* app a, unchanged; in particular creating todos in one app never affects *)
(* the ids assigned in another app: the id a new todo gets is computed     *)
(* from the todos of its own app alone.                                     *)

MutatingOps == {"postTodoNew", "putTodo", "deleteTodo", "check",
                "postTask", "putTask", "toggleTask", "deleteTask"}

\* the position of the todo the request addressed; a creation addresses none
Target == IF Answered("postTodoNew") THEN 0 ELSE TodoAt

\* 1 + the largest id among todos, 1 when there are none
NextIdAmong(todos) ==
  LET ids == {ToNumber(todos[i], "id") : i \in 1..Len(todos)} \cup {0}
  IN IF NaN \in ids THEN NaN
     ELSE 1 + CHOOSE m \in ids : \A n \in ids : n <= m

OthersUnchanged ==
  (req.op \in MutatingOps /\ AppAt # 0) =>
    /\ Len(data) = Len(before.data)
    /\ \A a \in 1..Len(data) : a # AppAt => data[a] = before.data[a]
    /\ \A k \in DOMAIN before.data[AppAt] :
         k # "todos" => k \in DOMAIN data[AppAt] /\ data[AppAt][k] = before.data[AppAt][k]
    /\ Len(data[AppAt].todos) =
         Len(before.data[AppAt].todos) + (IF Answered("postTodoNew") THEN 1 ELSE 0)
    /\ \A t \in 1..Len(before.data[AppAt].todos) :
         t # Target => data[AppAt].todos[t] = before.data[AppAt].todos[t]
    /\ Answered("postTodoNew") =>
         data[AppAt].todos[Len(data[AppAt].todos)].id = NextIdAmong(before.data[AppAt].todos)

\* the second app gets a todo with id 1 while the first app holds todo 1
SameIdInTwoApps ==
  /\ Answered("postTodoNew") /\ AppAt = 2 /\ res.status = 201
  /\ res.body.id = 1
  /\ Len(data[1].todos) = 1 /\ data[1].todos[1].id = 1
  /\ data[1] = before.data[1]

====
